---- MODULE Spec2Model ----
(***************************************************************************)
(* remoshock: the Coordinator (Remoshock.command / _process_command /      *)
(* boot), the serial transport manager (ArduinoManager) with its           *)
(* request/acknowledge protocol, the serial receivers                      *)
(* (ArduinoBasedReceiver), the RF receiver (Pacdog) and the RF transmitter *)
(* (UrhCliSender), as a state machine of threads that block on locks and   *)
(* on serial / process I/O.                                                *)
(***************************************************************************)
EXTENDS Integers, Sequences, FiniteSets, TLC

(* ------------------------------------------------------------------ *)
(* bounds of the model                                                *)
(* ------------------------------------------------------------------ *)

\* Coordinator.command calls issued by all callers together
MaxCommands == 2
\* the same, in runs where the external caller may pass anything
MaxWideCommands == 1
\* diagnostic frames (DEBUG / ERROR) the device sends in one run
MaxDiag == 1
\* diagnostic frames the device may send in the runs that check progress
MaxLiveDiag == 2
\* commands a direct client of the serial manager issues after registering
MaxClientCommands == 1
\* longest bit string handed to encode on its own
MaxEncodeLen == 4
\* sections of remoshock.ini in one configuration
MaxSections == 3

(* ------------------------------------------------------------------ *)
(* protocol constants                                                 *)
(* ------------------------------------------------------------------ *)

LED == 10
BEEP == 11
VIB == 12
ZAP == 13
BOOT == 100
BOOTED == 101
ADD == 102
ACKNOWLEDGE == 200
DEBUG == 253
ERROR == 254
PETAINER == 0
\* payload length of an ADD frame and of a command frame
PayloadLen == 4
\* the scheduled keep-alive command: power 0, duration 250
KeepAwakePower == 0
KeepAwakeDuration == 250
\* the 5 of awake_time_s / 2 - 5
KeepAwakeLead == 5
\* Pacdog.command: shortest duration and length of one message
PacdogMinDuration == 250
PacdogRounding == 5

None == "none"

\* the opcode ArduinoManager.command writes for an action (action.value)
ActionValue(action) ==
    CASE action = "LED" -> LED
      [] action = "BEEP" -> BEEP
      [] action = "VIB" -> VIB
      [] action = "ZAP" -> ZAP

(* ------------------------------------------------------------------ *)
(* threads                                                            *)
(* ------------------------------------------------------------------ *)

\* the thread that boots and then issues commands, the scheduler loop and
\* one more external caller (a web request)
Threads == {"main", "sched", "web"}
\* threads that use the serial manager directly (register, then command)
Clients == {"client1", "client2"}
AllThreads == Threads \cup Clients

(* ------------------------------------------------------------------ *)
(* inputs                                                             *)
(* ------------------------------------------------------------------ *)

Arduino(inc, min, awake) ==
    [type |-> "arduino", duration_increment_ms |-> inc, duration_min_ms |-> min,
     awake_time_s |-> awake, index |-> -1, bound |-> FALSE]

Pacdog(inc, min, awake) ==
    [type |-> "pacdog", duration_increment_ms |-> inc, duration_min_ms |-> min,
     awake_time_s |-> awake, index |-> -1, bound |-> FALSE]

\* the receiver lists _setup_from_config can produce that are explored
Configs ==
    { << Arduino(250, 250, 0), Pacdog(250, 250, 20) >>,
      << Arduino(100, 300, 0), Arduino(250, 250, 0) >>,
      << Pacdog(250, 500, 10) >> }

\* what external callers pass to Coordinator.command: every combination ...
CallerActions == {"ZAP", "BEEPZAP"}
Powers == {-1, 0, 100, 101}
Durations == {0, 125, 375, 66000}
ReceiverNumbers == 0 .. 3
AllRequests == ReceiverNumbers \X CallerActions \X Powers \X Durations
\* ... and the few that runs with several concurrent callers draw from
FewRequests ==
    { << 1, "BEEPZAP", 100, 125 >>, << 2, "BEEPZAP", 100, 375 >>,
      << 1, "ZAP", 100, 66000 >>, << 2, "BEEP", 0, 125 >>,
      << 3, "ZAP", 100, 125 >>, << 1, "ZAP", 101, 125 >>, << 1, "ZAP", 100, 0 >> }

\* bytes waiting in the serial input buffer when the port is opened
StaleInputs == { << >>, << ACKNOWLEDGE, 0 >> }

\* the frames the device answers with
DiagFrames == { << DEBUG, 1, 7 >> }
BootedFrames == { << BOOTED, 0 >> }
AckFrames == { << ACKNOWLEDGE, 0 >>, << ACKNOWLEDGE, 1, ACKNOWLEDGE >> }

(* ------------------------------------------------------------------ *)
(* state                                                              *)
(* ------------------------------------------------------------------ *)

VARIABLES
    debug_duration_in_message_count, \* Remoshock class attribute
    requests,         \* which requests external callers make in this run: "all" or "few"
    receivers,        \* Remoshock.receivers, with each receiver's index / binding
    lock,             \* remoshock.py module lock (RLock): owning thread
    serLock,          \* ArduinoManager.serLock (RLock): [owner, count]
    urhLock,          \* urhcli.py module lock (RLock): owning thread
    receiver_index,   \* ArduinoManager.receiver_index
    ser_in,           \* bytes the host can read from the serial port
    frame_start,      \* for each byte of ser_in: is it the first byte of a frame
    devQueue,         \* requests the device has received and not yet acknowledged
    devStage,         \* 1 once the device has answered a BOOT with BOOTED
    diagSent,         \* diagnostic frames sent so far
    transport,        \* every transport invocation, in order (serial write / RF run)
    written,          \* the data of the latest transport invocation
    acquired,         \* accepted commands in the order they took the Coordinator lock
    finished,         \* numbers (in acquired) of the commands that have returned
    raised,           \* numbers of the commands that left with an exception
    tasks,            \* the periodic tasks handed to scheduler().schedule_task, in order
    booted,           \* Remoshock.boot has returned
    bootReads,        \* sentinel opcodes the drains of ArduinoManager.boot ended at
    ackedAdds,        \* register_receiver calls whose drain has returned
    regOrder,         \* threads in the order their ADD frame was written
    regResult,        \* value register_receiver returned to each direct client
    issued,           \* Coordinator.command calls made so far
    pc,               \* where each thread is
    local,            \* each thread's local variables
    codec,            \* a call of the Pacdog codec: its arguments and results
    setup             \* Remoshock._setup_from_config: the sections and what became of them

vars == << debug_duration_in_message_count, requests, codec, setup, receivers, lock, serLock,
           urhLock,
           receiver_index, ser_in, frame_start, devQueue, devStage, diagSent,
           transport, written, acquired, finished, raised, tasks, booted, bootReads,
           ackedAdds, regOrder, regResult, issued, pc, local >>

\* variables of the coordinator that the serial layer never touches
coordVars == << debug_duration_in_message_count, requests, codec, setup, lock, urhLock,
                acquired, finished, raised, tasks, booted, issued >>

NoLocal ==
    [receiver |-> 0, action |-> None, power |-> 0, duration |-> 0,
     normalized |-> 0, seq |-> 0, phase |-> 0, op |-> None, until |-> 0,
     need |-> 0, tmp |-> 0, i |-> 0, left |-> 0, returncode |-> 0]

FreeLock == [owner |-> None, count |-> 0]

\* _setup_from_config is not under way
NoSetup ==
    [stage |-> None, sections |-> << >>, pos |-> 0, receivers |-> << >>,
     errors |-> << >>]

\* no call of the codec is under way
NoCodec ==
    [stage |-> None, action |-> None, level |-> 0, duration |-> 0,
     code |-> << >>, intensity |-> 0, button |-> 0, beep |-> 0,
     data |-> << >>, generated |-> << >>, encoded |-> << >>]

(* ------------------------------------------------------------------ *)
(* helpers                                                            *)
(* ------------------------------------------------------------------ *)

Max(a, b) == IF a >= b THEN a ELSE b

Abs(a) == IF a >= 0 THEN a ELSE -a

Drop(s, n) == SubSeq(s, n + 1, Len(s))

\* a frame as the device puts it on the wire: TRUE marks its first byte
Starts(frame) == [k \in 1 .. Len(frame) |-> k = 1]

\* threading.RLock: free, or already held by the same thread
SerLockAvailable(t) == serLock.owner \in {None, t}

SerLockAcquire(t, n) == [owner |-> t, count |-> serLock.count + n]

SerLockRelease(n) ==
    IF serLock.count - n = 0 THEN FreeLock
    ELSE [owner |-> serLock.owner, count |-> serLock.count - n]

\* ser.write(data): the frame goes to the device, which queues the request
SerWrite(t, seq, kind, frame) ==
    /\ transport' = Append(transport,
                           [tr |-> "serial", by |-> t, seq |-> seq, op |-> frame[1]])
    /\ written' = frame
    /\ devQueue' = Append(devQueue, kind)

\* read_responses(readUntil) is entered
StartDrain(t, op, until, fields) ==
    /\ pc' = [pc EXCEPT ![t] = "drain_hdr"]
    /\ local' = [local EXCEPT ![t] =
                    [fields EXCEPT !.op = op, !.until = until, !.need = 0]]

(* ------------------------------------------------------------------ *)
(* Remoshock: the class attribute debug_duration_in_message_count     *)
(* ------------------------------------------------------------------ *)

\* the program that embeds Remoshock switches the attribute on before boot
EnableDebugDuration ==
    /\ pc["main"] = "boot"
    /\ ~debug_duration_in_message_count
    /\ debug_duration_in_message_count' = TRUE
    /\ UNCHANGED << requests, codec, setup, receivers, lock, serLock, urhLock, receiver_index,
                    ser_in, frame_start, devQueue, devStage, diagSent,
                    transport, written, acquired, finished, raised, tasks,
                    booted, bootReads, ackedAdds, regOrder, regResult, issued,
                    pc, local >>

(* ------------------------------------------------------------------ *)
(* ArduinoManager.boot                                                *)
(* ------------------------------------------------------------------ *)

\* the sentinels the two drains of boot wait for, in order
BootDrains == << BOOTED, ACKNOWLEDGE >>

ArduinoRequired == \E i \in 1 .. Len(receivers) : receivers[i].type = "arduino"

\* Remoshock.boot up to arduino_manager.boot(): open the port, flush the input,
\* write BOOT, enter the first drain
BootArduinoManager ==
    /\ pc["main"] = "boot"
    /\ ArduinoRequired
    /\ serLock' = [owner |-> "main", count |-> 1]
    /\ receiver_index' = -1
    /\ ser_in' = << >>
    /\ frame_start' = << >>
    /\ SerWrite("main", 0, "BOOT", << BOOT, 0 >>)
    /\ StartDrain("main", "boot", BootDrains[1], NoLocal)
    /\ UNCHANGED << coordVars, receivers, devStage, diagSent, bootReads,
                    ackedAdds, regOrder, regResult >>

\* Remoshock.boot when no receiver needs the serial manager
BootWithoutArduino ==
    /\ pc["main"] = "boot"
    /\ ~ArduinoRequired
    /\ pc' = [pc EXCEPT !["main"] = "boot_loop"]
    /\ local' = [local EXCEPT !["main"] = [NoLocal EXCEPT !.i = 1]]
    /\ UNCHANGED << coordVars, receivers, serLock, receiver_index, ser_in,
                    frame_start, devQueue, devStage, diagSent, transport, written,
                    bootReads, ackedAdds, regOrder, regResult >>

(* ------------------------------------------------------------------ *)
(* ArduinoManager.read_responses                                      *)
(* ------------------------------------------------------------------ *)

\* the opcode that ends the drain is compared right after the 2-byte header
HeaderEndsDrain(opcode, until) == opcode = until

\* a header that is not the sentinel: its payload is read next (ser.read blocks
\* until data[1] bytes have arrived)
DrainDiagnosticHeader(t) ==
    /\ pc[t] = "drain_hdr"
    /\ Len(ser_in) >= 2
    /\ ~HeaderEndsDrain(ser_in[1], local[t].until)
    /\ ser_in' = Drop(ser_in, 2)
    /\ frame_start' = Drop(frame_start, 2)
    /\ pc' = [pc EXCEPT ![t] = "drain_payload"]
    /\ local' = [local EXCEPT ![t].need = ser_in[2]]
    /\ UNCHANGED << coordVars, receivers, serLock, receiver_index, devQueue,
                    devStage, diagSent, transport, written, bootReads, ackedAdds,
                    regOrder, regResult >>

DrainPayload(t) ==
    /\ pc[t] = "drain_payload"
    /\ Len(ser_in) >= local[t].need
    /\ ser_in' = Drop(ser_in, local[t].need)
    /\ frame_start' = Drop(frame_start, local[t].need)
    /\ pc' = [pc EXCEPT ![t] = "drain_hdr"]
    /\ local' = [local EXCEPT ![t].need = 0]
    /\ UNCHANGED << coordVars, receivers, serLock, receiver_index, devQueue,
                    devStage, diagSent, transport, written, bootReads, ackedAdds,
                    regOrder, regResult >>

\* the sentinel header is read: the drain returns, its payload is not read
SentinelRead(t, op) ==
    /\ pc[t] = "drain_hdr"
    /\ local[t].op = op
    /\ Len(ser_in) >= 2
    /\ HeaderEndsDrain(ser_in[1], local[t].until)
    /\ ser_in' = Drop(ser_in, 2)
    /\ frame_start' = Drop(frame_start, 2)

\* boot: a drain of boot has returned; the next one starts, or boot leaves the
\* connection lock and Remoshock.boot goes on to its receivers
BootDrainReturns ==
    /\ SentinelRead("main", "boot")
    /\ bootReads' = Append(bootReads, ser_in[1])
    /\ IF Len(bootReads) + 1 < Len(BootDrains)
       THEN /\ local' = [local EXCEPT !["main"].until = BootDrains[Len(bootReads) + 2]]
            /\ UNCHANGED << pc, serLock >>
       ELSE /\ serLock' = SerLockRelease(1)
            /\ pc' = [pc EXCEPT !["main"] = "boot_loop"]
            /\ local' = [local EXCEPT !["main"] = [NoLocal EXCEPT !.i = 1]]
    /\ UNCHANGED << coordVars, receivers, receiver_index, devQueue, devStage,
                    diagSent, transport, written, ackedAdds, regOrder, regResult >>

(* ------------------------------------------------------------------ *)
(* the device on the other end of the serial link                     *)
(* ------------------------------------------------------------------ *)

DeviceSends(frame) ==
    /\ ser_in' = ser_in \o frame
    /\ frame_start' = frame_start \o Starts(frame)

DeviceDiag ==
    /\ devQueue # << >>
    /\ diagSent < (IF requests = "live" THEN MaxLiveDiag ELSE MaxDiag)
    /\ \E f \in DiagFrames : DeviceSends(f)
    /\ diagSent' = diagSent + 1
    /\ UNCHANGED << coordVars, receivers, serLock, receiver_index, devQueue,
                    devStage, transport, written, bootReads, ackedAdds, regOrder,
                    regResult, pc, local >>

DeviceBooted ==
    /\ devQueue # << >>
    /\ Head(devQueue) = "BOOT"
    /\ devStage = 0
    /\ \E f \in BootedFrames : DeviceSends(f)
    /\ devStage' = 1
    /\ UNCHANGED << coordVars, receivers, serLock, receiver_index, devQueue,
                    diagSent, transport, written, bootReads, ackedAdds, regOrder,
                    regResult, pc, local >>

DeviceAck ==
    /\ devQueue # << >>
    /\ Head(devQueue) = "BOOT" => devStage = 1
    /\ \E f \in AckFrames : DeviceSends(f)
    /\ devQueue' = Tail(devQueue)
    /\ devStage' = 0
    /\ UNCHANGED << coordVars, receivers, serLock, receiver_index, diagSent,
                    transport, written, bootReads, ackedAdds, regOrder, regResult, pc,
                    local >>

(* ------------------------------------------------------------------ *)
(* ArduinoManager.register_receiver                                   *)
(* ------------------------------------------------------------------ *)

\* with self.serLock: self.send(bytes([ADD, 4, receiver_type, arg1, arg2, arg3]))
\* up to the write: the lock is taken twice (register_receiver, then send)
RegisterSend(t) ==
    /\ pc[t] = "reg_call"
    /\ SerLockAvailable(t)
    /\ serLock' = SerLockAcquire(t, 2)
    /\ SerWrite(t, 0, "ADD", << ADD, PayloadLen, PETAINER, local[t].i, 0, 0 >>)
    /\ regOrder' = Append(regOrder, t)
    /\ StartDrain(t, "reg", ACKNOWLEDGE, local[t])
    /\ UNCHANGED << coordVars, receivers, receiver_index, ser_in, frame_start,
                    devStage, diagSent, bootReads, ackedAdds, regResult >>

\* the drain of send has returned: both with-blocks are left
RegisterDrainReturns(t) ==
    /\ SentinelRead(t, "reg")
    /\ serLock' = SerLockRelease(2)
    /\ ackedAdds' = ackedAdds + 1
    /\ pc' = [pc EXCEPT ![t] = "reg_read"]
    /\ UNCHANGED << coordVars, receivers, receiver_index, devQueue, devStage,
                    diagSent, transport, written, bootReads, regOrder, regResult, local >>

\* self.receiver_index = self.receiver_index + 1: the read ...
RegisterReadIndex(t) ==
    /\ pc[t] = "reg_read"
    /\ local' = [local EXCEPT ![t].tmp = receiver_index]
    /\ pc' = [pc EXCEPT ![t] = "reg_write"]
    /\ UNCHANGED << coordVars, receivers, serLock, receiver_index, ser_in,
                    frame_start, devQueue, devStage, diagSent, transport, written,
                    bootReads, ackedAdds, regOrder, regResult >>

\* ... and the write
RegisterWriteIndex(t) ==
    /\ pc[t] = "reg_write"
    /\ receiver_index' = local[t].tmp + 1
    /\ pc' = [pc EXCEPT ![t] = "reg_ret"]
    /\ UNCHANGED << coordVars, receivers, serLock, ser_in, frame_start,
                    devQueue, devStage, diagSent, transport, written, bootReads,
                    ackedAdds, regOrder, regResult, local >>

(* ------------------------------------------------------------------ *)
(* Remoshock.boot: the loop over the receivers                        *)
(* ------------------------------------------------------------------ *)

\* PeriodicTask(awake_time_s / 2 - 5, ...): the interval in seconds, counted
\* in half seconds so that the division by 2 stays exact
PeriodHalfSeconds(awake_time_s) == awake_time_s - 2 * KeepAwakeLead

\* the keep-alive task of receiver i, scheduled when awake_time_s > 0
\* (variant: the task is scheduled whatever awake_time_s is)
WithKeepAwakeAlways(i) ==
    Append(tasks, [receiver |-> i, action |-> "KEEPAWAKE",
                   power |-> KeepAwakePower, duration |-> KeepAwakeDuration,
                   interval_half_s |-> PeriodHalfSeconds(receivers[i].awake_time_s)])

WithKeepAwake(i) ==
    IF receivers[i].awake_time_s > 0
    THEN Append(tasks, [receiver |-> i, action |-> "KEEPAWAKE",
                        power |-> KeepAwakePower, duration |-> KeepAwakeDuration,
                        interval_half_s |-> PeriodHalfSeconds(receivers[i].awake_time_s)])
    ELSE tasks

\* receiver.boot of a serial receiver: register_receiver is called
BootArduinoReceiver ==
    /\ pc["main"] = "boot_loop"
    /\ local["main"].i <= Len(receivers)
    /\ receivers[local["main"].i].type = "arduino"
    /\ pc' = [pc EXCEPT !["main"] = "reg_call"]
    /\ UNCHANGED << coordVars, receivers, serLock, receiver_index, ser_in,
                    frame_start, devQueue, devStage, diagSent, transport, written,
                    bootReads, ackedAdds, regOrder, regResult, local >>

\* return self.receiver_index; the receiver keeps it as self.index, its
\* keep-alive task is scheduled and the loop goes on
BootReceiverRegistered ==
    /\ pc["main"] = "reg_ret"
    /\ LET i == local["main"].i IN
        /\ receivers' = [receivers EXCEPT ![i].index = receiver_index,
                                          ![i].bound = TRUE]
        /\ tasks' = WithKeepAwake(i)
        /\ local' = [local EXCEPT !["main"] = [NoLocal EXCEPT !.i = i + 1]]
    /\ pc' = [pc EXCEPT !["main"] = "boot_loop"]
    /\ UNCHANGED << debug_duration_in_message_count, requests, codec, setup, lock, urhLock, acquired,
                    finished, raised, booted, issued, serLock, receiver_index,
                    ser_in, frame_start, devQueue, devStage, diagSent,
                    transport, written, bootReads, ackedAdds, regOrder, regResult >>

\* receiver.boot of an RF receiver: the sender is bound
BootSdrReceiver ==
    /\ pc["main"] = "boot_loop"
    /\ local["main"].i <= Len(receivers)
    /\ receivers[local["main"].i].type = "pacdog"
    /\ LET i == local["main"].i IN
        /\ receivers' = [receivers EXCEPT ![i].bound = TRUE]
        /\ tasks' = WithKeepAwake(i)
        /\ local' = [local EXCEPT !["main"].i = i + 1]
    /\ UNCHANGED << debug_duration_in_message_count, requests, codec, setup, lock, urhLock, acquired,
                    finished, raised, booted, issued, serLock, receiver_index,
                    ser_in, frame_start, devQueue, devStage, diagSent,
                    transport, written, bootReads, ackedAdds, regOrder, regResult, pc >>

BootReturns ==
    /\ pc["main"] = "boot_loop"
    /\ local["main"].i > Len(receivers)
    /\ booted' = TRUE
    /\ pc' = [pc EXCEPT !["main"] = "idle"]
    /\ local' = [local EXCEPT !["main"] = NoLocal]
    /\ UNCHANGED << debug_duration_in_message_count, requests, codec, setup, lock, urhLock, acquired,
                    finished, raised, tasks, issued, receivers, serLock,
                    receiver_index, ser_in, frame_start, devQueue, devStage,
                    diagSent, transport, written, bootReads, ackedAdds, regOrder,
                    regResult >>

(* ------------------------------------------------------------------ *)
(* Remoshock.command                                                  *)
(* ------------------------------------------------------------------ *)

\* (variant: the check of duration == 0 is missing)
RejectedWithoutDuration(receiver, power, duration) ==
    \/ receiver < 1
    \/ receiver > Len(receivers)
    \/ power < 0
    \/ power > 100

\* the three early returns of command
Rejected(receiver, power, duration) ==
    \/ receiver < 1
    \/ receiver > Len(receivers)
    \/ power < 0
    \/ power > 100
    \/ duration = 0

\* (variant: the quotient is cut instead of rounded)
RoundedDown(n, d) == n \div d

\* Python's round(n / d) for d > 0: to the nearest integer, a tie to the even one
Round(n, d) ==
    LET q == n \div d
        r == n % d
    IN  IF 2 * r < d THEN q
        ELSE IF 2 * r > d THEN q + 1
        ELSE IF q % 2 = 0 THEN q ELSE q + 1

\* (variant: the result is not raised to duration_min_ms)
NormalizedWithoutMin(receiver, duration) ==
    IF debug_duration_in_message_count
    THEN duration
    ELSE Round(duration, receivers[receiver].duration_increment_ms)
            * receivers[receiver].duration_increment_ms

NormalizedDuration(receiver, duration) ==
    IF debug_duration_in_message_count
    THEN duration
    ELSE LET duration_increment_ms == receivers[receiver].duration_increment_ms
             duration_min_ms == receivers[receiver].duration_min_ms
         IN  Max(duration_min_ms,
                 Round(duration, duration_increment_ms) * duration_increment_ms)

\* command(receiver, action, power, duration) up to the call of _process_command
Command(t, receiver, action, power, duration) ==
    /\ pc[t] = "idle"
    /\ issued < (IF requests = "all" THEN MaxWideCommands ELSE MaxCommands)
    /\ issued' = issued + 1
    /\ IF Rejected(receiver, power, duration)
       THEN UNCHANGED << pc, local >>
       ELSE /\ pc' = [pc EXCEPT ![t] = "cmd_wait"]
            /\ local' = [local EXCEPT ![t] =
                    [NoLocal EXCEPT !.receiver = receiver, !.action = action,
                                    !.power = power, !.duration = duration,
                                    !.normalized = NormalizedDuration(receiver, duration)]]
    /\ UNCHANGED << debug_duration_in_message_count, requests, codec, setup, receivers, lock, serLock,
                    urhLock, receiver_index, ser_in, frame_start, devQueue,
                    devStage, diagSent, transport, written, acquired, finished, raised,
                    tasks, booted, bootReads, ackedAdds, regOrder, regResult >>

\* an external caller (after boot has returned)
CallerCommand(t) ==
    /\ t \in {"main", "web"}
    /\ booted
    /\ \E r \in (IF requests = "all" THEN AllRequests ELSE FewRequests) :
            Command(t, r[1], r[2], r[3], r[4])

\* the scheduler executes the periodic task of receiver i:
\* CommandTask(None, None, None, self, i, Action.KEEPAWAKE, 0, 250)
SchedulerRuns ==
    \E k \in 1 .. Len(tasks) :
        Command("sched", tasks[k].receiver, tasks[k].action, tasks[k].power,
                tasks[k].duration)

(* ------------------------------------------------------------------ *)
(* Remoshock._process_command                                         *)
(* ------------------------------------------------------------------ *)

\* (variant: _process_command does not take the lock)
LockNotChecked(t) == TRUE

\* threading.RLock: free, or already held by the same thread
LockAvailable(t) == lock \in {None, t}

\* with lock: the receiver is resolved and its command is entered
ProcessCommand(t) ==
    /\ pc[t] = "cmd_wait"
    /\ LockAvailable(t)
    /\ lock' = t
    /\ acquired' = Append(acquired,
            [by |-> t, receiver |-> local[t].receiver, action |-> local[t].action])
    /\ local' = [local EXCEPT ![t].seq = Len(acquired) + 1]
    /\ pc' = [pc EXCEPT ![t] =
                IF receivers[local[t].receiver].type = "arduino"
                THEN "ar_cmd" ELSE "pd_cmd"]
    /\ UNCHANGED << debug_duration_in_message_count, requests, codec, setup, receivers, serLock,
                    urhLock, receiver_index, ser_in, frame_start, devQueue,
                    devStage, diagSent, transport, written, finished, raised, tasks,
                    booted, bootReads, ackedAdds, regOrder, regResult, issued >>

\* the receiver's command returns (or raises) to its caller: _process_command
\* leaves the lock; a direct client just gets control back
ReceiverReturns(t, exception) ==
    IF t \in Threads
    THEN /\ lock' = None
         /\ finished' = finished \cup {local[t].seq}
         /\ raised' = IF exception THEN raised \cup {local[t].seq} ELSE raised
         /\ pc' = [pc EXCEPT ![t] = "idle"]
         /\ local' = [local EXCEPT ![t] = NoLocal]
    ELSE /\ pc' = [pc EXCEPT ![t] = "client_ready"]
         /\ local' = [local EXCEPT ![t] =
                        [NoLocal EXCEPT !.i = local[t].i, !.left = local[t].left]]
         /\ UNCHANGED << lock, finished, raised >>

(* ------------------------------------------------------------------ *)
(* ArduinoBasedReceiver.command, ArduinoManager.command / send        *)
(* ------------------------------------------------------------------ *)

\* self.index of the receiver the thread commands
ReceiverIndex(t) ==
    IF t \in Clients THEN regResult[t] ELSE receivers[local[t].receiver].index

\* int(duration / 256): the quotient, cut towards zero
IntDiv(a, b) == IF a >= 0 THEN a \div b ELSE -((-a) \div b)

\* l = [action.value, 4, receiver, level, int(duration / 256), duration % 256]
CommandFrame(action, receiver, level, duration) ==
    << ActionValue(action), PayloadLen, receiver, level,
       IntDiv(duration, 256), duration % 256 >>

\* bytes(l) raises ValueError unless every element is in range(0, 256)
IsBytes(l) == \A k \in 1 .. Len(l) : l[k] >= 0 /\ l[k] <= 255

\* (variant: for BEEPZAP the ZAP is sent before the BEEP)
NextFrameZapFirst(t) ==
    IF local[t].action = "BEEPZAP" /\ local[t].phase = 1
    THEN CommandFrame("BEEP", ReceiverIndex(t), 0, 0)
    ELSE CommandFrame(IF local[t].action = "BEEPZAP" THEN "ZAP" ELSE local[t].action,
                      ReceiverIndex(t), local[t].power, local[t].normalized)

\* the arguments of the manager's command the receiver makes next: for BEEPZAP
\* first (BEEP, index, 0, 0), then ZAP with the level and duration
NextFrame(t) ==
    IF local[t].action = "BEEPZAP" /\ local[t].phase = 0
    THEN CommandFrame("BEEP", ReceiverIndex(t), 0, 0)
    ELSE CommandFrame(IF local[t].action = "BEEPZAP" THEN "ZAP" ELSE local[t].action,
                      ReceiverIndex(t), local[t].power, local[t].normalized)

\* bytes(l) raises: the exception leaves the receiver and the Coordinator
ArduinoEncodeFails(t) ==
    /\ pc[t] = "ar_cmd"
    /\ ~IsBytes(NextFrame(t))
    /\ ReceiverReturns(t, TRUE)
    /\ UNCHANGED << debug_duration_in_message_count, requests, codec, setup, receivers, serLock,
                    urhLock, receiver_index, ser_in, frame_start, devQueue,
                    devStage, diagSent, transport, written, acquired, tasks, booted,
                    bootReads, ackedAdds, regOrder, regResult, issued >>

\* send: with self.serLock: self.ser.write(data), then the drain
ArduinoSend(t) ==
    /\ pc[t] = "ar_cmd"
    /\ IsBytes(NextFrame(t))
    /\ SerLockAvailable(t)
    /\ serLock' = SerLockAcquire(t, 1)
    /\ SerWrite(t, local[t].seq, "CMD", NextFrame(t))
    /\ StartDrain(t, "cmd", ACKNOWLEDGE, local[t])
    /\ UNCHANGED << coordVars, receivers, receiver_index, ser_in, frame_start,
                    devStage, diagSent, bootReads, ackedAdds, regOrder,
                    regResult >>

\* the drain of send has returned: after the BEEP of a BEEPZAP the receiver
\* sleeps and goes on with the ZAP, otherwise its command returns
CommandDrainReturns(t) ==
    /\ SentinelRead(t, "cmd")
    /\ serLock' = SerLockRelease(1)
    /\ IF local[t].action = "BEEPZAP" /\ local[t].phase = 0
       THEN /\ local' = [local EXCEPT ![t].phase = 1, ![t].op = None,
                                      ![t].until = 0]
            /\ pc' = [pc EXCEPT ![t] = "ar_cmd"]
            /\ UNCHANGED << lock, finished, raised >>
       ELSE ReceiverReturns(t, FALSE)
    /\ UNCHANGED << debug_duration_in_message_count, requests, codec, setup, receivers, urhLock,
                    receiver_index, devQueue, devStage, diagSent, transport, written,
                    acquired, tasks, booted, bootReads, ackedAdds, regOrder,
                    regResult, issued >>

(* ------------------------------------------------------------------ *)
(* Pacdog.command, UrhCliSender.send                                  *)
(* ------------------------------------------------------------------ *)

\* the message of Pacdog.command: << 1 if a beep message with "/1s" leads,
\* intensity, beep flag, number of repeated messages >>
\* (variant: the level is scaled by 64 instead of 63)
PacdogMessageScaled64(action, level, duration) ==
    LET d == IF duration < PacdogMinDuration THEN PacdogMinDuration ELSE duration
    IN  << IF action = "BEEPZAP" THEN 1 ELSE 0,
           (level * 64) \div 100,
           IF action \in {"ZAP", "BEEPZAP"} THEN 0 ELSE 1,
           (d + PacdogRounding) \div 250 >>

PacdogMessage(action, level, duration) ==
    LET d == IF duration < PacdogMinDuration THEN PacdogMinDuration ELSE duration
    IN  << IF action = "BEEPZAP" THEN 1 ELSE 0,
           (level * 63) \div 100,
           IF action \in {"ZAP", "BEEPZAP"} THEN 0 ELSE 1,
           (d + PacdogRounding) \div 250 >>

\* (variant: send starts the process without waiting for the lock)
UrhLockNotChecked(t) == TRUE

\* threading.RLock of urhcli.py: free, or already held by the same thread
UrhLockAvailable(t) == urhLock \in {None, t}

\* with lock: subprocess.run(cmd) is started
PacdogSend(t) ==
    /\ pc[t] = "pd_cmd"
    /\ UrhLockAvailable(t)
    /\ urhLock' = t
    /\ transport' = Append(transport,
            [tr |-> "rf", by |-> t, seq |-> local[t].seq,
             op |-> IF local[t].action = "BEEPZAP" THEN BEEP ELSE 0])
    /\ written' = PacdogMessage(local[t].action, local[t].power,
                                local[t].normalized)
    /\ pc' = [pc EXCEPT ![t] = "rf_run"]
    /\ UNCHANGED << debug_duration_in_message_count, requests, codec, setup, receivers, lock, serLock,
                    receiver_index, ser_in, frame_start, devQueue, devStage,
                    diagSent, acquired, finished, raised, tasks, booted,
                    bootReads, ackedAdds, regOrder, regResult, issued, local >>

\* what the external process can exit with: success, or a failure such as a
\* device that is not found
ExitCodes == {0, 1}

\* the external process exits: subprocess.run returns its CompletedProcess
UrhProcessExits(t) ==
    /\ pc[t] = "rf_run"
    /\ \E code \in ExitCodes : local' = [local EXCEPT ![t].returncode = code]
    /\ pc' = [pc EXCEPT ![t] = "rf_exit"]
    /\ UNCHANGED << coordVars, receivers, serLock, receiver_index, ser_in,
                    frame_start, devQueue, devStage, diagSent, transport, written,
                    bootReads, ackedAdds, regOrder, regResult >>

\* the result of subprocess.run is dropped, the lock is left, send and
\* Pacdog.command return
UrhSendReturns(t) ==
    /\ pc[t] = "rf_exit"
    /\ urhLock' = None
    /\ ReceiverReturns(t, FALSE)
    /\ UNCHANGED << debug_duration_in_message_count, requests, codec, setup, receivers, serLock,
                    receiver_index, ser_in, frame_start, devQueue, devStage,
                    diagSent, transport, written, acquired, tasks, booted, bootReads,
                    ackedAdds, regOrder, regResult, issued >>

(* ------------------------------------------------------------------ *)
(* direct clients of the serial manager                               *)
(* ------------------------------------------------------------------ *)

\* ArduinoBasedReceiver.boot: self.index = arduino_manager.register_receiver(...)
ClientRegistered(t) ==
    /\ t \in Clients
    /\ pc[t] = "reg_ret"
    /\ regResult' = [regResult EXCEPT ![t] = receiver_index]
    /\ pc' = [pc EXCEPT ![t] = "client_ready"]
    /\ UNCHANGED << coordVars, receivers, serLock, receiver_index, ser_in,
                    frame_start, devQueue, devStage, diagSent, transport, written,
                    bootReads, ackedAdds, regOrder, local >>

\* ArduinoBasedReceiver.command called without the Coordinator
ClientCommand(t) ==
    /\ t \in Clients
    /\ pc[t] = "client_ready"
    /\ local[t].left > 0
    /\ \E action \in {"ZAP", "BEEPZAP"} :
        local' = [local EXCEPT ![t].action = action, ![t].power = 100,
                               ![t].normalized = 250,
                               ![t].left = local[t].left - 1]
    /\ pc' = [pc EXCEPT ![t] = "ar_cmd"]
    /\ UNCHANGED << coordVars, receivers, serLock, receiver_index, ser_in,
                    frame_start, devQueue, devStage, diagSent, transport, written,
                    bootReads, ackedAdds, regOrder, regResult >>

\* Pacdog.command called without the Coordinator: it ends in UrhCliSender.send
ClientSend(t) ==
    /\ t \in Clients
    /\ pc[t] = "client_ready"
    /\ local[t].left > 0
    /\ \E action \in {"BEEP", "ZAP", "BEEPZAP"} : \E power \in {0, 100} :
        local' = [local EXCEPT ![t].action = action, ![t].power = power,
                               ![t].normalized = 250,
                               ![t].left = local[t].left - 1]
    /\ pc' = [pc EXCEPT ![t] = "pd_cmd"]
    /\ UNCHANGED << coordVars, receivers, serLock, receiver_index, ser_in,
                    frame_start, devQueue, devStage, diagSent, transport, written,
                    bootReads, ackedAdds, regOrder, regResult >>

(* ------------------------------------------------------------------ *)
(* the Pacdog codec: generate, calculate_intensity_code,              *)
(* calculate_checksum, encode. A Python string is the sequence of its *)
(* characters.                                                        *)
(* ------------------------------------------------------------------ *)

button_codes ==
    << << 0, 0, 0 >>, << 0, 1, 1 >>, << 0, 1, 0 >>, << 1, 1, 0 >>,
       << 1, 0, 0 >>, << 0, 0, 1 >>, << 1, 0, 1 >>, << 1, 1, 1 >> >>

\* str(n) of a number below ten: its digit
str(n) == << << "0", "1", "2", "3", "4", "5", "6", "7", "8", "9" >>[n + 1] >>

\* int(c) of one character; -1 stands for the ValueError of a non-digit
int(c) == IF c = "0" THEN 0 ELSE IF c = "1" THEN 1 ELSE -1

\* the pow of Python's 2**i
RECURSIVE Pow2(_)
Pow2(i) == IF i = 0 THEN 1 ELSE 2 * Pow2(i - 1)

\* for i in range(0, 6): res = res + str(intensity // 2**i % 2)
RECURSIVE IntensityLoop(_, _)
IntensityLoop(intensity, i) ==
    IF i >= 6 THEN << >>
    ELSE str((intensity \div Pow2(i)) % 2) \o IntensityLoop(intensity, i + 1)

\* (variant: the most significant of the six bits comes first)
RECURSIVE IntensityLoopMsb(_, _)
IntensityLoopMsb(intensity, i) ==
    IF i >= 6 THEN << >>
    ELSE str((intensity \div Pow2(5 - i)) % 2) \o IntensityLoopMsb(intensity, i + 1)

calculate_intensity_code_msb(intensity) == IntensityLoopMsb(intensity, 0)

calculate_intensity_code(intensity) == IntensityLoop(intensity, 0)

\* data[k] of Python, counted from 0
At(data, k) == data[k + 1]

\* (variant: the second checksum character reads position 20 instead of 21)
ChecksumReadsPlaceholder == << {0, 8}, {1, 9, 20}, {2, 10, 22}, {3, 11, 23}, {4, 12} >>

\* the positions of data that each character of the checksum adds up
ChecksumReads == << {0, 8}, {1, 9, 21}, {2, 10, 22}, {3, 11, 23}, {4, 12} >>

\* the sum of int(data[k]) over the positions in ks
RECURSIVE IntSum(_, _)
IntSum(data, ks) ==
    IF ks = {} THEN 0
    ELSE LET k == CHOOSE x \in ks : TRUE
         IN  int(At(data, k)) + IntSum(data, ks \ {k})

\* one character per entry of ChecksumReads: the sum of its positions % 2;
\* int() of a character that is no digit raises ValueError
calculate_checksum(data) ==
    IF \E j \in 1 .. 5 : \E k \in ChecksumReads[j] : int(At(data, k)) = -1
    THEN << "ValueError" >>
    ELSE str(IntSum(data, ChecksumReads[1]) % 2)
            \o str(IntSum(data, ChecksumReads[2]) % 2)
            \o str(IntSum(data, ChecksumReads[3]) % 2)
            \o str(IntSum(data, ChecksumReads[4]) % 2)
            \o str(IntSum(data, ChecksumReads[5]) % 2)

generate(code, intensity, button, beep) ==
    LET pre_checksum == SubSeq(code, 1, 2) \o calculate_intensity_code(intensity)
                            \o str(button_codes[button + 1][1])
                            \o SubSeq(code, 3, Len(code))
        post_checksum == str(beep) \o str(button_codes[button + 1][2])
                            \o str(button_codes[button + 1][3])
        data == pre_checksum \o << "C", "C", "C", "C", "C" >> \o post_checksum
    IN  pre_checksum \o calculate_checksum(data) \o post_checksum

prefix == << "0", "1", "0", "1", "0", "1", "0", "1", "0", "1", "0", "1", "0", "1", "0", "1", "1", "1", "1" >>

filler == << "1", "0" >>

\* for bit in data: res = res + bit + filler
RECURSIVE EncodeLoop(_)
EncodeLoop(data) ==
    IF data = << >> THEN << >>
    ELSE << Head(data) >> \o filler \o EncodeLoop(Tail(data))

\* (variant: no filler between the prefix and the first bit)
encode_without_filler(data) == prefix \o EncodeLoop(data)

encode(data) == prefix \o filler \o EncodeLoop(data)

\* every variable but codec and setup
programVars == << debug_duration_in_message_count, requests, receivers, lock, serLock,
                  urhLock, receiver_index, ser_in, frame_start, devQueue, devStage,
                  diagSent, transport, written, acquired, finished, raised, tasks,
                  booted, bootReads, ackedAdds, regOrder, regResult, issued, pc,
                  local >>

\* strings of "0" and "1" of length n
BitStrings(n) == [1 .. n -> {"0", "1"}]

\* the code of test_generate and the code of the sample at the end of pacdog.py
TestCode == << "0", "1", "0", "1", "1", "0", "1", "1", "0" >>
SampleCode == << "0", "1", "1", "1", "0", "0", "0", "0", "0" >>

\* transmitter codes: 9 characters with at most one "1" or at most one "0",
\* and the two codes above
Codes ==
    { c \in BitStrings(9) :
        \/ Cardinality({ k \in 1 .. 9 : c[k] = "1" }) <= 1
        \/ Cardinality({ k \in 1 .. 9 : c[k] = "0" }) <= 1 }
    \cup {TestCode, SampleCode}

\* the arguments of generate: a code, any intensity, any channel, beep or not
GenerateCalls ==
    { [NoCodec EXCEPT !.stage = "generate", !.code = c, !.intensity = i,
                      !.button = b, !.beep = p] :
        c \in Codes, i \in 0 .. 63, b \in 0 .. 7, p \in 0 .. 1 }

\* the data of test_encoding
TestData == << "0", "1", "0", "1", "0", "0", "1", "0", "0", "0", "1", "1", "0", "1", "1", "0", "0", "0", "0", "0", "0", "1", "1", "0" >>

\* the arguments of encode: short bit strings, and the data of test_encoding
\* test_encoding: the expected encoding of TestData
TestEncoded ==
    << "0", "1", "0", "1", "0", "1", "0", "1", "0", "1", "0", "1", "0", "1", "0", "1", "1", "1", "1", "1", "0", "0", "1", "0",
       "1", "1", "0", "0", "1", "0", "1", "1", "0", "0", "1", "0", "0", "1", "0", "1", "1", "0", "0", "1", "0", "0", "1", "0",
       "0", "1", "0", "1", "1", "0", "1", "1", "0", "0", "1", "0", "1", "1", "0", "1", "1", "0", "0", "1", "0", "0", "1", "0",
       "0", "1", "0", "0", "1", "0", "0", "1", "0", "0", "1", "0", "1", "1", "0", "1", "1", "0", "0", "1", "0" >>

EncodeCalls ==
    { [NoCodec EXCEPT !.stage = "encode", !.data = d] :
        d \in UNION { BitStrings(n) : n \in 0 .. MaxEncodeLen } \cup {TestData} }

\* the arguments of Pacdog.command on a receiver with a sample code and
\* channel: any action, any level the Coordinator lets through, a duration
CommandCalls ==
    { [NoCodec EXCEPT !.stage = "command", !.action = a, !.level = l,
                      !.duration = d, !.code = SampleCode, !.button = 0] :
        a \in {"BEEP", "ZAP", "BEEPZAP"}, l \in 0 .. 100, d \in {125, 500} }

\* Pacdog.command: the arguments of the generate call of message_template
PacdogCommand ==
    /\ codec.stage = "command"
    /\ LET message == PacdogMessage(codec.action, codec.level, codec.duration)
       IN  codec' = [codec EXCEPT !.stage = "generate", !.intensity = message[2],
                                  !.beep = message[3]]
    /\ UNCHANGED << programVars, setup >>

\* generate(code, intensity, button, beep); its result is handed to encode
Generate ==
    /\ codec.stage = "generate"
    /\ LET res == generate(codec.code, codec.intensity, codec.button, codec.beep)
       IN  codec' = [codec EXCEPT !.stage = "encode", !.generated = res,
                                  !.data = res]
    /\ UNCHANGED << programVars, setup >>

\* encode(data)
Encode ==
    /\ codec.stage = "encode"
    /\ codec' = [codec EXCEPT !.stage = "done", !.encoded = encode(codec.data)]
    /\ UNCHANGED << programVars, setup >>

(* ------------------------------------------------------------------ *)
(* Remoshock._setup_from_config and __instantiate_receiver            *)
(* ------------------------------------------------------------------ *)

\* the options __instantiate_receiver reads with config.get(section, key)
RequiredKeys == {"type", "name", "color", "transmitter_code"}

\* a section of remoshock.ini: whether its name starts with "receiver", the
\* required options it has, its type, what its channel and button options hold
\* ("absent", "int" for a number, "text" for anything else) and what
\* validate_config of the receiver built from it answers
Section(receiver, keys, type, channel, button, valid) ==
    [receiver |-> receiver, keys |-> keys, type |-> type, channel |-> channel,
     button |-> button, valid |-> valid]

GoodSection == Section(TRUE, RequiredKeys, "pac", "int", "absent", TRUE)

\* the sections that are explored
Sections ==
    { GoodSection,
      Section(FALSE, {}, "", "absent", "absent", TRUE),
      Section(TRUE, RequiredKeys \ {"type"}, "", "int", "absent", TRUE),
      Section(TRUE, RequiredKeys \ {"transmitter_code"}, "pac", "text", "absent", TRUE),
      Section(TRUE, RequiredKeys, "pac", "absent", "absent", TRUE),
      Section(TRUE, RequiredKeys, "pac", "absent", "int", TRUE),
      Section(TRUE, RequiredKeys, "pac", "absent", "text", TRUE),
      Section(TRUE, RequiredKeys, "pac", "text", "absent", TRUE),
      Section(TRUE, RequiredKeys, "collar", "int", "absent", TRUE),
      Section(TRUE, RequiredKeys, "petrainer", "int", "absent", FALSE) }

\* the receiver types __instantiate_receiver knows (compared in lower case)
KnownTypes == {"dogtra200ncp", "patpett150", "pac", "petrainer", "wodondog", "wodondogb"}

\* __instantiate_receiver(section): "receiver" for a receiver object, "None",
\* or the exception that leaves it
InstantiateReceiver(section) ==
    IF ~ ({"type", "name", "color"} \subseteq section.keys) THEN "NoOptionError"
    ELSE IF "transmitter_code" \notin section.keys THEN "NoOptionError"
    ELSE IF section.channel = "absent" /\ section.button = "text" THEN "ValueError"
    ELSE IF section.channel = "absent" /\ section.button = "int" THEN "None"
    ELSE IF section.channel = "absent" THEN "NoOptionError"
    ELSE IF section.channel = "text" THEN "ValueError"
    ELSE IF section.type \notin KnownTypes THEN "None"
    ELSE IF section.valid THEN "receiver"
    ELSE "None"

\* the section the loop of _setup_from_config stands at
SetupSection == setup.sections[setup.pos]

SetupLoops == setup.stage = "sections" /\ setup.pos <= Len(setup.sections)

\* if receiver.startswith("receiver") is false: the section is passed over
SetupPassesOver ==
    /\ SetupLoops
    /\ ~ SetupSection.receiver
    /\ setup' = [setup EXCEPT !.pos = @ + 1]
    /\ UNCHANGED << programVars, codec >>

\* receivers.append(receiver)
SetupAppends ==
    /\ SetupLoops
    /\ SetupSection.receiver
    /\ InstantiateReceiver(SetupSection) = "receiver"
    /\ setup' = [setup EXCEPT !.pos = @ + 1,
                              !.receivers = Append(@, setup.pos)]
    /\ UNCHANGED << programVars, codec >>

\* __instantiate_receiver returns None: it has printed an ERROR (old button
\* option, unknown type) or validate_config has refused the receiver
SetupSkipsNone ==
    /\ SetupLoops
    /\ SetupSection.receiver
    /\ InstantiateReceiver(SetupSection) = "None"
    /\ setup' = [setup EXCEPT !.pos = @ + 1, !.errors = Append(@, setup.pos)]
    /\ UNCHANGED << programVars, codec >>

\* except configparser.NoOptionError: the error is printed, the loop goes on
SetupCatchesNoOption ==
    /\ SetupLoops
    /\ SetupSection.receiver
    /\ InstantiateReceiver(SetupSection) = "NoOptionError"
    /\ setup' = [setup EXCEPT !.pos = @ + 1, !.errors = Append(@, setup.pos)]
    /\ UNCHANGED << programVars, codec >>

\* getint raises ValueError: no except clause of _setup_from_config names it,
\* so it leaves _setup_from_config and boot
SetupValueError ==
    /\ SetupLoops
    /\ SetupSection.receiver
    /\ InstantiateReceiver(SetupSection) = "ValueError"
    /\ setup' = [setup EXCEPT !.stage = "raised"]
    /\ UNCHANGED << programVars, codec >>

\* if len(receivers) == 0: sys.exit(1)
SetupExits ==
    /\ setup.stage = "sections"
    /\ setup.pos > Len(setup.sections)
    /\ Len(setup.receivers) = 0
    /\ setup' = [setup EXCEPT !.stage = "exit"]
    /\ UNCHANGED << programVars, codec >>

\* self.receivers = receivers
SetupReturns ==
    /\ setup.stage = "sections"
    /\ setup.pos > Len(setup.sections)
    /\ Len(setup.receivers) > 0
    /\ setup' = [setup EXCEPT !.stage = "ok"]
    /\ UNCHANGED << programVars, codec >>

(* ------------------------------------------------------------------ *)
(* specifications                                                     *)
(* ------------------------------------------------------------------ *)

\* the whole program: nothing is booted yet
Init ==
    /\ debug_duration_in_message_count = FALSE
    /\ requests = "few"
    /\ codec = NoCodec
    /\ setup = NoSetup
    /\ receivers \in Configs
    /\ lock = None
    /\ serLock = FreeLock
    /\ urhLock = None
    /\ receiver_index = -1
    /\ ser_in \in StaleInputs
    /\ frame_start = Starts(ser_in)
    /\ devQueue = << >>
    /\ devStage = 0
    /\ diagSent = 0
    /\ transport = << >>
    /\ written = << >>
    /\ acquired = << >>
    /\ finished = {}
    /\ raised = {}
    /\ tasks = << >>
    /\ booted = FALSE
    /\ bootReads = << >>
    /\ ackedAdds = 0
    /\ regOrder = << >>
    /\ regResult = [t \in Clients |-> -1]
    /\ issued = 0
    /\ pc = [t \in AllThreads |->
                IF t = "main" THEN "boot" ELSE IF t \in Threads THEN "idle" ELSE "off"]
    /\ local = [t \in AllThreads |-> NoLocal]

Next ==
    \/ EnableDebugDuration
    \/ BootArduinoManager
    \/ BootWithoutArduino
    \/ BootDrainReturns
    \/ BootArduinoReceiver
    \/ BootReceiverRegistered
    \/ BootSdrReceiver
    \/ BootReturns
    \/ SchedulerRuns
    \/ DeviceDiag
    \/ DeviceBooted
    \/ DeviceAck
    \/ \E t \in Threads :
        \/ DrainDiagnosticHeader(t)
        \/ DrainPayload(t)
        \/ RegisterSend(t)
        \/ RegisterDrainReturns(t)
        \/ RegisterReadIndex(t)
        \/ RegisterWriteIndex(t)
        \/ CallerCommand(t)
        \/ ProcessCommand(t)
        \/ ArduinoEncodeFails(t)
        \/ ArduinoSend(t)
        \/ CommandDrainReturns(t)
        \/ PacdogSend(t)
        \/ UrhProcessExits(t)
        \/ UrhSendReturns(t)

Spec == Init /\ [][Next]_vars

\* the program used from one thread, which may pass anything to command();
\* the periodic keep-awake tasks have not come due
InitRequests ==
    /\ debug_duration_in_message_count = FALSE
    /\ requests = "all"
    /\ codec = NoCodec
    /\ setup = NoSetup
    /\ receivers \in Configs
    /\ lock = None
    /\ serLock = FreeLock
    /\ urhLock = None
    /\ receiver_index = -1
    /\ ser_in = << >>
    /\ frame_start = << >>
    /\ devQueue = << >>
    /\ devStage = 0
    /\ diagSent = 0
    /\ transport = << >>
    /\ written = << >>
    /\ acquired = << >>
    /\ finished = {}
    /\ raised = {}
    /\ tasks = << >>
    /\ booted = FALSE
    /\ bootReads = << >>
    /\ ackedAdds = 0
    /\ regOrder = << >>
    /\ regResult = [t \in Clients |-> -1]
    /\ issued = 0
    /\ pc = [t \in AllThreads |->
                IF t = "main" THEN "boot" ELSE "off"]
    /\ local = [t \in AllThreads |-> NoLocal]

NextRequests ==
    \/ EnableDebugDuration
    \/ BootArduinoManager
    \/ BootWithoutArduino
    \/ BootDrainReturns
    \/ BootArduinoReceiver
    \/ BootReceiverRegistered
    \/ BootSdrReceiver
    \/ BootReturns
    \/ DeviceDiag
    \/ DeviceBooted
    \/ DeviceAck
    \/ DrainDiagnosticHeader("main")
    \/ DrainPayload("main")
    \/ RegisterSend("main")
    \/ RegisterDrainReturns("main")
    \/ RegisterReadIndex("main")
    \/ RegisterWriteIndex("main")
    \/ CallerCommand("main")
    \/ ProcessCommand("main")
    \/ ArduinoEncodeFails("main")
    \/ ArduinoSend("main")
    \/ CommandDrainReturns("main")
    \/ PacdogSend("main")
    \/ UrhProcessExits("main")
    \/ UrhSendReturns("main")

SpecRequests == InitRequests /\ [][NextRequests]_vars

\* the serial manager after ArduinoManager.boot, used by several threads at
\* once, each registering a receiver and then commanding it
InitSerial ==
    /\ debug_duration_in_message_count = FALSE
    /\ requests = "few"
    /\ codec = NoCodec
    /\ setup = NoSetup
    /\ receivers = << >>
    /\ lock = None
    /\ serLock = FreeLock
    /\ urhLock = None
    /\ receiver_index = -1
    /\ ser_in = << >>
    /\ frame_start = << >>
    /\ devQueue = << >>
    /\ devStage = 0
    /\ diagSent = 0
    /\ transport = << >>
    /\ written = << >>
    /\ acquired = << >>
    /\ finished = {}
    /\ raised = {}
    /\ tasks = << >>
    /\ booted = FALSE
    /\ bootReads = BootDrains
    /\ ackedAdds = 0
    /\ regOrder = << >>
    /\ regResult = [t \in Clients |-> -1]
    /\ issued = 0
    /\ pc = [t \in AllThreads |-> IF t \in Clients THEN "reg_call" ELSE "off"]
    /\ local = [t \in AllThreads |->
                    IF t \in Clients
                    THEN [NoLocal EXCEPT !.i = IF t = "client1" THEN 1 ELSE 2,
                                         !.left = MaxClientCommands]
                    ELSE NoLocal]

NextSerial ==
    \/ DeviceDiag
    \/ DeviceAck
    \/ \E t \in Clients :
        \/ DrainDiagnosticHeader(t)
        \/ DrainPayload(t)
        \/ RegisterSend(t)
        \/ RegisterDrainReturns(t)
        \/ RegisterReadIndex(t)
        \/ RegisterWriteIndex(t)
        \/ ClientRegistered(t)
        \/ ClientCommand(t)
        \/ ArduinoSend(t)
        \/ CommandDrainReturns(t)

SpecSerial == InitSerial /\ [][NextSerial]_vars

\* the RF transmitter used by several threads at once, each sending through
\* its own Pacdog receiver
InitRf ==
    /\ debug_duration_in_message_count = FALSE
    /\ requests = "few"
    /\ codec = NoCodec
    /\ setup = NoSetup
    /\ receivers = << >>
    /\ lock = None
    /\ serLock = FreeLock
    /\ urhLock = None
    /\ receiver_index = -1
    /\ ser_in = << >>
    /\ frame_start = << >>
    /\ devQueue = << >>
    /\ devStage = 0
    /\ diagSent = 0
    /\ transport = << >>
    /\ written = << >>
    /\ acquired = << >>
    /\ finished = {}
    /\ raised = {}
    /\ tasks = << >>
    /\ booted = FALSE
    /\ bootReads = << >>
    /\ ackedAdds = 0
    /\ regOrder = << >>
    /\ regResult = [t \in Clients |-> -1]
    /\ issued = 0
    /\ pc = [t \in AllThreads |-> IF t \in Clients THEN "client_ready" ELSE "off"]
    /\ local = [t \in AllThreads |->
                    IF t \in Clients
                    THEN [NoLocal EXCEPT !.left = MaxClientCommands]
                    ELSE NoLocal]

NextRf ==
    \E t \in Clients :
        \/ ClientSend(t)
        \/ PacdogSend(t)
        \/ UrhProcessExits(t)
        \/ UrhSendReturns(t)

SpecRf == InitRf /\ [][NextRf]_vars

\* the codec on its own: one call of Pacdog.command, generate or encode
InitCodec ==
    /\ debug_duration_in_message_count = FALSE
    /\ requests = "few"
    /\ codec \in GenerateCalls \cup EncodeCalls \cup CommandCalls
    /\ setup = NoSetup
    /\ receivers = << >>
    /\ lock = None
    /\ serLock = FreeLock
    /\ urhLock = None
    /\ receiver_index = -1
    /\ ser_in = << >>
    /\ frame_start = << >>
    /\ devQueue = << >>
    /\ devStage = 0
    /\ diagSent = 0
    /\ transport = << >>
    /\ written = << >>
    /\ acquired = << >>
    /\ finished = {}
    /\ raised = {}
    /\ tasks = << >>
    /\ booted = FALSE
    /\ bootReads = << >>
    /\ ackedAdds = 0
    /\ regOrder = << >>
    /\ regResult = [t \in Clients |-> -1]
    /\ issued = 0
    /\ pc = [t \in AllThreads |-> "off"]
    /\ local = [t \in AllThreads |-> NoLocal]

NextCodec ==
    \/ PacdogCommand
    \/ Generate
    \/ Encode

SpecCodec == InitCodec /\ [][NextCodec]_vars

(* ------------------------------------------------------------------ *)
(* properties                                                         *)
(* ------------------------------------------------------------------ *)

\* the thread is inside Receiver.command, called by _process_command
InReceiver(t) == local[t].seq > 0

\* the thread has written a request and its drain has not returned
Draining(t) == pc[t] \in {"drain_hdr", "drain_payload"}

SerialEntries == { k \in 1 .. Len(transport) : transport[k].tr = "serial" }

CommandOpcodes == {LED, BEEP, VIB, ZAP}

\* what the claim accepts
ValidRequest(receiver, power, duration) ==
    /\ 1 <= receiver /\ receiver <= Len(receivers)
    /\ 0 <= power /\ power <= 100
    /\ duration # 0

\* C1: command goes on to the target receiver if and only if
\* 1 <= receiverNumber <= receiverCount, 0 <= power <= 100 and durationMs # 0;
\* any other call returns without a receiver command or a transport invocation
\* and leaves the receivers, the locks and the transports as they were.
OnlyValidDispatched ==
    /\ \A t \in Threads :
          local[t].receiver # 0 =>
              ValidRequest(local[t].receiver, local[t].power, local[t].duration)
    /\ \A k \in 1 .. Len(acquired) : acquired[k].receiver \in 1 .. Len(receivers)

C2_MutualExclusion ==
    /\ Cardinality({ t \in Threads : InReceiver(t) }) <= 1
    /\ \A t \in Threads : InReceiver(t) => lock = t

\* one caller is blocked in transport I/O inside its receiver call while
\* another one waits for the lock
C2_Witness ==
    \E t, u \in Threads :
        /\ t # u
        /\ InReceiver(t)
        /\ pc[t] \in {"drain_hdr", "drain_payload", "rf_run"}
        /\ pc[u] = "cmd_wait"

\* the transport invocations a command makes when it is carried out in full
ExpectedInvocations(k) ==
    IF acquired[k].action = "BEEPZAP" /\ receivers[acquired[k].receiver].type = "arduino"
    THEN 2 ELSE 1

InvocationsOf(k) == { j \in 1 .. Len(transport) : transport[j].seq = k }

\* C3: the transport invocations are exactly those of the accepted commands, in
\* the order in which the commands took the Coordinator lock; every accepted
\* command makes its invocation(s) exactly once, none is dropped, duplicated or
\* reordered.
C3_Ordering ==
    /\ \A i, j \in 1 .. Len(transport) :
          (i < j /\ transport[i].seq > 0 /\ transport[j].seq > 0)
              => transport[i].seq <= transport[j].seq
    /\ \A k \in 1 .. Len(acquired) :
          /\ Cardinality(InvocationsOf(k)) <= ExpectedInvocations(k)
          /\ k \in finished => Cardinality(InvocationsOf(k)) = ExpectedInvocations(k)

\* C4: the BEEP frame of a BEEPZAP comes first and its ZAP frame second, both
\* under one acquisition of the Coordinator lock; no transport invocation of
\* another command lies between them.
C4_BeepZapAtomic ==
    /\ \A i, j \in 1 .. Len(transport) :
          (i < j /\ transport[i].seq > 0 /\ transport[i].seq = transport[j].seq)
              => /\ j = i + 1
                 /\ acquired[transport[i].seq].action = "BEEPZAP"
                 /\ transport[i].op = BEEP
                 /\ transport[j].op = ZAP
    /\ \A j \in 1 .. Len(transport) :
          (transport[j].seq > 0 /\ acquired[transport[j].seq].action = "BEEPZAP")
              => \/ transport[j].op = BEEP
                 \/ (j > 1 /\ transport[j - 1].seq = transport[j].seq)
    /\ \A t \in Threads :
          (InReceiver(t) /\ local[t].action = "BEEPZAP") => lock = t

\* the ZAP frame of a serial BEEPZAP has just followed its BEEP frame while
\* another caller waits for the lock
C4_Witness ==
    /\ Len(transport) >= 2
    /\ transport[Len(transport)].tr = "serial"
    /\ transport[Len(transport)].op = ZAP
    /\ transport[Len(transport) - 1].op = BEEP
    /\ transport[Len(transport) - 1].seq = transport[Len(transport)].seq
    /\ \E u \in Threads : pc[u] = "cmd_wait"

\* C5: send, register_receiver and command hold the connection lock from the
\* write of their frame until the drain of the call has returned, so at most one
\* thread is between its write and the end of its drain; and the drain ends with
\* the ACKNOWLEDGE of the request, so the device never holds more than one
\* request that it has not yet acknowledged.
C5_NoPipelining ==
    /\ Cardinality({ t \in AllThreads : Draining(t) }) <= 1
    /\ \A t \in AllThreads : Draining(t) => serLock.owner = t
    /\ Len(devQueue) <= 1

\* C6: the k-th register_receiver call (in the order of the ADD frames) returns
\* k - 1, whether the calls overlap or not, and no index is returned twice.
C6_Indices ==
    /\ \A k \in 1 .. Len(regOrder) : regResult[regOrder[k]] \in {-1, k - 1}
    /\ \A t, u \in Clients :
          (t # u /\ regResult[t] # -1) => regResult[t] # regResult[u]

\* C7: a drain consumes whole frames, the frame of the sentinel included, so
\* whenever no payload read is under way the input stream stands at the first
\* byte of a frame.
C7_WholeFrames ==
    (\A t \in AllThreads : pc[t] # "drain_payload")
        => (ser_in = << >> \/ frame_start[1])

\* C8: the drain of a command or registration ends exactly at a header with
\* opcode ACKNOWLEDGE, and once the device has sent the ACKNOWLEDGE of every
\* request it received the call can always go on to return.
C8_DrainTermination ==
    \A t \in AllThreads :
        (Draining(t) /\ local[t].op \in {"reg", "cmd"})
            => /\ local[t].until = ACKNOWLEDGE
               /\ devQueue = << >> =>
                    \/ pc[t] = "drain_hdr" /\ Len(ser_in) >= 2
                    \/ pc[t] = "drain_payload" /\ Len(ser_in) >= local[t].need

\* C9: BOOT, written right after the flush, is the first frame on the link; no
\* ADD or command frame is written before boot has read a BOOTED header and then
\* an ACKNOWLEDGE header; no command frame is written for a receiver whose
\* registration has not returned, or while the device has yet to acknowledge
\* an ADD.
BootFrameFirst ==
    \A k \in SerialEntries :
        (\A j \in SerialEntries : k <= j) => transport[k].op = BOOT

C9_BootOrdering ==
    [][/\ BootFrameFirst'
       /\ (Len(transport') > Len(transport)
            /\ transport'[Len(transport')].tr = "serial")
          => LET op == transport'[Len(transport')].op IN
             /\ op = BOOT => (ser_in' = << >> /\ transport = << >>)
             /\ op # BOOT => bootReads = << BOOTED, ACKNOWLEDGE >>
             /\ op \in CommandOpcodes =>
                    /\ written'[3] < ackedAdds
                    /\ \A k \in 1 .. Len(devQueue) : devQueue[k] # "ADD"]_vars

\* the multiple of the increment next to the duration (a tie goes to the even
\* multiple), but not less than the minimum
IsNormalized(n, duration, inc, min) ==
    \E q \in { duration \div inc, duration \div inc + 1 } :
        /\ 2 * Abs(q * inc - duration) <= inc
        /\ (2 * Abs(q * inc - duration) = inc => q % 2 = 0)
        /\ n = Max(min, q * inc)

DurationNormalized(t) ==
    LET r == receivers[local[t].receiver] IN
    /\ IsNormalized(local[t].normalized, local[t].duration,
                    r.duration_increment_ms, r.duration_min_ms)
    /\ local[t].normalized >= r.duration_min_ms
    /\ (r.duration_increment_ms = 250 /\ r.duration_min_ms = 250
        /\ local[t].duration \in 1 .. 250) => local[t].normalized = 250

\* C10 as stated: for every accepted command the duration handed to the
\* receiver is max(durationMinMs, round(durationMs / durationIncrementMs) *
\* durationIncrementMs) with the receiver's own properties.
C10_AlwaysNormalized ==
    \A t \in Threads : local[t].receiver # 0 => DurationNormalized(t)

\* C10, amended: the same, for commands made while
\* debug_duration_in_message_count is off.
C10_NormalizedUnlessDebug ==
    \A t \in Threads :
        (local[t].receiver # 0 /\ ~debug_duration_in_message_count)
            => DurationNormalized(t)

\* a duration of 125 ms is handed to a receiver with increment 250 as 250 ms
C10_Witness ==
    \E t \in Threads :
        /\ InReceiver(t)
        /\ ~debug_duration_in_message_count
        /\ local[t].duration = 125
        /\ local[t].normalized = 250
        /\ receivers[local[t].receiver].duration_increment_ms = 250

\* the latest transport invocation, whose data is in written
LastInvocation == transport[Len(transport)]

\* the duration a serial command frame carries: high byte * 256 + low byte
FrameDuration(frame) == frame[5] * 256 + frame[6]

\* the latest invocation is a serial command frame / an RF send
CommandFrameWritten ==
    /\ transport # << >>
    /\ LastInvocation.tr = "serial"
    /\ LastInvocation.op \in CommandOpcodes

RfSent == transport # << >> /\ LastInvocation.tr = "rf"

\* C11 as stated: no command frame written to the serial manager and no RF send
\* carries a duration of 0 (an RF send of duration 0 repeats its message 0
\* times).
C11_NoZeroDuration ==
    /\ CommandFrameWritten => FrameDuration(written) # 0
    /\ RfSent => written[4] >= 1

\* C11, amended: a frame or RF send that carries the duration of a Coordinator
\* command never carries 0; the only command frame with duration 0 is the BEEP
\* frame that leads a BEEPZAP on a serial receiver, written with level 0 and
\* duration 0 whatever was requested.
C11_ZeroOnlyInLeadingBeep ==
    /\ (CommandFrameWritten /\ LastInvocation.seq > 0 /\ FrameDuration(written) = 0)
          => /\ acquired[LastInvocation.seq].action = "BEEPZAP"
             /\ LastInvocation.op = BEEP
             /\ written[4] = 0
             /\ \A k \in 1 .. Len(transport) - 1 :
                    transport[k].seq # LastInvocation.seq
    /\ RfSent => written[4] >= 1
    /\ \A t \in Threads : local[t].receiver # 0 => local[t].duration # 0

\* the ZAP frame of a serial BEEPZAP carries the normalized duration, after the
\* BEEP frame that carried 0
C11_Witness ==
    /\ CommandFrameWritten
    /\ LastInvocation.seq > 0
    /\ acquired[LastInvocation.seq].action = "BEEPZAP"
    /\ LastInvocation.op = ZAP
    /\ FrameDuration(written) = 250
    /\ \E t \in Threads : local[t].duration = 125 /\ local[t].seq = LastInvocation.seq

\* C12: no exception leaves Coordinator.command: whatever fails in the receiver
\* or its transport, command returns normally to its caller, with the
\* Coordinator lock released.
C12_NoExceptionPropagates ==
    /\ raised = {}
    /\ \A t \in Threads : pc[t] = "idle" => lock # t

\* the duration the receiver passes to the manager's command with the frame
\* it sends next
HandedDuration(t) ==
    IF local[t].action = "BEEPZAP" /\ local[t].phase = 0 THEN 0
    ELSE local[t].normalized

\* C13: a command frame is the 6 bytes [opcode, 4, receiverIndex, level,
\* duration div 256, duration mod 256] with opcode 10..13, every byte in 0..255
\* and high * 256 + low equal to the duration, for every duration the
\* Coordinator hands to a serial receiver.
C13_FrameLayout ==
    /\ CommandFrameWritten =>
          /\ Len(written) = 6
          /\ written[1] \in {10, 11, 12, 13}
          /\ written[2] = 4
          /\ \A k \in 1 .. 6 : written[k] \in 0 .. 255
    /\ \A t \in Threads :
          pc[t] = "ar_cmd" =>
              LET f == NextFrame(t) IN
              /\ Len(f) = 6
              /\ f[3] = receivers[local[t].receiver].index
              /\ f[5] = HandedDuration(t) \div 256
              /\ f[6] = HandedDuration(t) % 256
              /\ \A k \in 1 .. 6 : f[k] \in 0 .. 255
              /\ f[5] * 256 + f[6] = HandedDuration(t)

\* C14: when the external process fails (exits with a non-zero code), send
\* hands its caller an error, an outcome other than that of a success; and
\* one send starts the external process exactly once.
C14_FailureSurfaced ==
    [][\A t \in Threads :
          (pc[t] = "rf_exit" /\ pc'[t] # "rf_exit") =>
              /\ local[t].returncode # 0 => local[t].seq \in raised'
              /\ Cardinality({ k \in InvocationsOf(local[t].seq) :
                                  transport[k].tr = "rf" }) = 1]_vars

\* the external transmitter process of the thread's send is running
ProcessRunning(t) == pc[t] = "rf_run"

\* C15: at most one external transmitter process runs at any moment, whatever
\* the interleaving of the send calls; the thread whose process runs holds the
\* transmitter lock until send returns, so a second caller waits.
C15_RfMutualExclusion ==
    /\ Cardinality({ t \in AllThreads : ProcessRunning(t) }) <= 1
    /\ \A t \in AllThreads : pc[t] \in {"rf_run", "rf_exit"} => urhLock = t

\* one caller's process runs while another caller has called send
C15_Witness ==
    \E t, u \in Clients :
        /\ t # u
        /\ ProcessRunning(t)
        /\ pc[u] = "pd_cmd"

\* the character of a bit
Bit(n) == IF n = 1 THEN "1" ELSE "0"

\* the number of "1" among the characters of s at the positions ks (from 0)
Ones(s, ks) == Cardinality({ k \in ks : s[k + 1] = "1" })

\* C16: generate returns the 24 characters code[0:2], the 6 characters of the
\* intensity, the first channel bit, code[2:], 5 checksum characters, the beep
\* flag and the other two channel bits; checksum character k is the parity of
\* the checksum input at {0,8}, {1,9,21}, {2,10,22}, {3,11,23}, {4,12} (outside
\* the checksum the input and the result agree), no placeholder position 16..20
\* is read, and generate("010110110", 18, 2, 1) = "010100100011011000000110".
C16_GenerateResult ==
    codec.generated # << >> =>
        LET g == codec.generated
            c == codec.code
            channel == button_codes[codec.button + 1]
            reads == << {0, 8}, {1, 9, 21}, {2, 10, 22}, {3, 11, 23}, {4, 12} >>
        IN  /\ Len(g) = 24
            /\ \A k \in 1 .. 24 : g[k] \in {"0", "1"}
            /\ \A k \in 1 .. 2 : g[k] = c[k]
            /\ \A i \in 0 .. 5 : g[3 + i] = Bit((codec.intensity \div Pow2(i)) % 2)
            /\ g[9] = Bit(channel[1])
            /\ \A k \in 3 .. 9 : g[k + 7] = c[k]
            /\ \A k \in 1 .. 5 : g[16 + k] = Bit(Ones(g, reads[k]) % 2)
            /\ g[22] = Bit(codec.beep)
            /\ g[23] = Bit(channel[2])
            /\ g[24] = Bit(channel[3])
            /\ \A k \in 1 .. 5 : ChecksumReads[k] \cap (16 .. 20) = {}
            /\ (c = TestCode /\ codec.intensity = 18 /\ codec.button = 2
                /\ codec.beep = 1) => g = TestData

\* test_generate: generate("010110110", 18, 2, 1) has been computed
C16_Witness ==
    /\ codec.generated = TestData
    /\ codec.code = TestCode
    /\ codec.intensity = 18
    /\ codec.button = 2
    /\ codec.beep = 1

\* the intensity field of a generated message
IntensityField == SubSeq(codec.generated, 3, 8)

\* the sum of char[i] * 2^i over the characters of a field
RECURSIVE FieldValue(_, _)
FieldValue(field, i) ==
    IF i >= Len(field) THEN 0
    ELSE int(field[i + 1]) * Pow2(i) + FieldValue(field, i + 1)

\* C17: for every intensity in 0..63 the intensity field has exactly 6
\* characters, character i is bit i of the intensity (least significant
\* first), the sum of char[i] * 2^i is the intensity again, another intensity
\* has another field, and the fields of 1 and 32 are "100000" and "000001".
C17_IntensityRoundTrip ==
    codec.generated # << >> /\ codec.intensity \in 0 .. 63 =>
        /\ IntensityField = calculate_intensity_code(codec.intensity)
        /\ Len(IntensityField) = 6
        /\ \A i \in 0 .. 5 :
               IntensityField[i + 1] = Bit((codec.intensity \div Pow2(i)) % 2)
        /\ FieldValue(IntensityField, 0) = codec.intensity
        /\ \A other \in 0 .. 63 :
               other # codec.intensity =>
                   calculate_intensity_code(other) # IntensityField
        /\ codec.intensity = 1 =>
               IntensityField = << "1", "0", "0", "0", "0", "0" >>
        /\ codec.intensity = 32 =>
               IntensityField = << "0", "0", "0", "0", "0", "1" >>

\* test_calculate_intensity_code: the field of 32 has been computed
C17_Witness ==
    /\ codec.intensity = 32
    /\ codec.generated # << >>
    /\ IntensityField = << "0", "0", "0", "0", "0", "1" >>

\* C18: encode(d) of a bitstring d of length n is the 19 characters
\* "0101010101010101111", then "10", then every bit of d in order followed by
\* "10"; it has 21 + 3n characters, every third character from offset 21 on is
\* d again, no other bitstring has the same encoding, and
\* encode("010100100011011000000110") is the 93 characters of test_encoding.
C18_EncodeFraming ==
    codec.stage = "done" =>
        LET d == codec.data
            e == codec.encoded
            n == Len(d)
        IN  /\ Len(e) = 21 + 3 * n
            /\ SubSeq(e, 1, 19) =
                   << "0", "1", "0", "1", "0", "1", "0", "1", "0", "1",
                      "0", "1", "0", "1", "0", "1", "1", "1", "1" >>
            /\ SubSeq(e, 20, 21) = << "1", "0" >>
            /\ \A k \in 1 .. n :
                   SubSeq(e, 19 + 3 * k, 21 + 3 * k) = << d[k], "1", "0" >>
            /\ [k \in 1 .. n |-> e[22 + 3 * (k - 1)]] = d
            /\ \A m \in 0 .. MaxEncodeLen : \A other \in BitStrings(m) :
                   other # d => encode(other) # e
            /\ d = TestData => e = TestEncoded

\* test_encoding: encode("010100100011011000000110") has been computed
C18_Witness ==
    /\ codec.stage = "done"
    /\ codec.code = << >>
    /\ codec.data = TestData
    /\ codec.encoded = TestEncoded

\* Pacdog.command has computed the intensity of its message
IntensityComputed == codec.action # None /\ codec.stage # "command"

\* C19: for a command with a power in 0..100 the intensity that Pacdog.command
\* passes to generate is power * 63 div 100; it lies in 0..63, is 0 for power 0
\* and 63 for power 100, is not below the intensity of any lower power, and
\* the six characters that generate encodes stand for that very number.
C19_IntensityRange ==
    IntensityComputed /\ codec.level \in 0 .. 100 =>
        /\ codec.intensity = (codec.level * 63) \div 100
        /\ codec.intensity \in 0 .. 63
        /\ codec.level = 0 => codec.intensity = 0
        /\ codec.level = 100 => codec.intensity = 63
        /\ \A lower \in 0 .. codec.level :
               PacdogMessage(codec.action, lower, codec.duration)[2]
                   <= codec.intensity
        /\ codec.generated # << >> =>
               FieldValue(IntensityField, 0) = codec.intensity

\* a command with power 100 has been encoded with intensity 63
C19_Witness ==
    /\ IntensityComputed
    /\ codec.level = 100
    /\ codec.intensity = 63
    /\ codec.stage = "done"

\* the scheduled tasks that target receiver i
TasksOf(i) == { k \in 1 .. Len(tasks) : tasks[k].receiver = i }

\* C20: boot schedules exactly one periodic KEEPAWAKE task (power 0, duration
\* 250) for each receiver with awake_time_s > 0 and none for a receiver with
\* awake_time_s = 0; the task targets the 1-based number of its receiver and
\* is scheduled only after that receiver's boot has bound its transport, so
\* the scheduler never commands a receiver that is not booted.
C20_KeepAwakeTasks ==
    /\ \A k \in 1 .. Len(tasks) :
        /\ tasks[k].action = "KEEPAWAKE"
        /\ tasks[k].power = 0
        /\ tasks[k].duration = 250
        /\ tasks[k].receiver \in 1 .. Len(receivers)
        /\ receivers[tasks[k].receiver].awake_time_s > 0
        /\ receivers[tasks[k].receiver].bound
    /\ \A i \in 1 .. Len(receivers) :
        /\ Cardinality(TasksOf(i)) <= 1
        /\ receivers[i].awake_time_s = 0 => TasksOf(i) = {}
        /\ booted /\ receivers[i].awake_time_s > 0 => Cardinality(TasksOf(i)) = 1
    /\ pc["sched"] # "idle" =>
        /\ local["sched"].action = "KEEPAWAKE"
        /\ receivers[local["sched"].receiver].bound

\* boot is over with one receiver without and one with a keep-alive task, and
\* the scheduler has run that task
C20_Witness ==
    /\ booted
    /\ Len(receivers) = 2
    /\ receivers[1].awake_time_s = 0
    /\ Len(tasks) = 1
    /\ tasks[1].receiver = 2
    /\ \E k \in 1 .. Len(acquired) :
           acquired[k].by = "sched" /\ acquired[k].receiver = 2

\* _setup_from_config on its own: any list of at most MaxSections sections
InitSetup ==
    /\ debug_duration_in_message_count = FALSE
    /\ requests = "few"
    /\ codec = NoCodec
    /\ \E n \in 0 .. MaxSections : \E list \in [1 .. n -> Sections] :
           setup = [NoSetup EXCEPT !.stage = "sections", !.sections = list,
                                   !.pos = 1]
    /\ receivers = << >>
    /\ lock = None
    /\ serLock = FreeLock
    /\ urhLock = None
    /\ receiver_index = -1
    /\ ser_in = << >>
    /\ frame_start = << >>
    /\ devQueue = << >>
    /\ devStage = 0
    /\ diagSent = 0
    /\ transport = << >>
    /\ written = << >>
    /\ acquired = << >>
    /\ finished = {}
    /\ raised = {}
    /\ tasks = << >>
    /\ booted = FALSE
    /\ bootReads = << >>
    /\ ackedAdds = 0
    /\ regOrder = << >>
    /\ regResult = [t \in Clients |-> -1]
    /\ issued = 0
    /\ pc = [t \in AllThreads |-> "off"]
    /\ local = [t \in AllThreads |-> NoLocal]

NextSetup ==
    \/ SetupPassesOver
    \/ SetupAppends
    \/ SetupSkipsNone
    \/ SetupCatchesNoOption
    \/ SetupValueError
    \/ SetupExits
    \/ SetupReturns

SpecSetup == InitSetup /\ [][NextSetup]_vars

\* a receiver section that has a fault the claim names: a required option
\* (channel included) is missing, the type is unknown, a number is malformed,
\* or validate_config fails
Faulty(section) ==
    \/ ~ (RequiredKeys \subseteq section.keys)
    \/ section.channel # "int"
    \/ section.type \notin KnownTypes
    \/ ~ section.valid

\* the positions of the valid receiver sections among the first n, in order
ValidSections(n) ==
    SelectSeq([k \in 1 .. n |-> k],
              LAMBDA k : setup.sections[k].receiver /\ ~ Faulty(setup.sections[k]))

\* C21: whatever the sections are, _setup_from_config ends by returning or by
\* the exit for zero receivers; a receiver section with a missing option, an
\* unknown type, a malformed value or a failed validate_config is skipped with
\* an error, every valid one is instantiated, in configuration order, and the
\* exit is taken if and only if no section is valid.
C21_ReceiverScoped ==
    /\ setup.stage \in {None, "sections", "ok", "exit"}
    /\ setup.stage \in {"ok", "exit"} =>
        /\ setup.receivers = ValidSections(Len(setup.sections))
        /\ \A k \in 1 .. Len(setup.sections) :
               (setup.sections[k].receiver /\ Faulty(setup.sections[k]))
                   => \E e \in 1 .. Len(setup.errors) : setup.errors[e] = k
        /\ setup.stage = "exit" <=> ValidSections(Len(setup.sections)) = << >>

\* what a thread does on its own once it is inside boot or a command (the
\* interpreter schedules every thread that can run)
ThreadStep(t) ==
    \/ DrainDiagnosticHeader(t)
    \/ DrainPayload(t)
    \/ RegisterSend(t)
    \/ RegisterDrainReturns(t)
    \/ RegisterReadIndex(t)
    \/ RegisterWriteIndex(t)
    \/ ProcessCommand(t)
    \/ ArduinoEncodeFails(t)
    \/ ArduinoSend(t)
    \/ CommandDrainReturns(t)
    \/ PacdogSend(t)
    \/ UrhProcessExits(t)
    \/ UrhSendReturns(t)

BootStep ==
    \/ BootArduinoManager
    \/ BootWithoutArduino
    \/ BootDrainReturns
    \/ BootArduinoReceiver
    \/ BootReceiverRegistered
    \/ BootSdrReceiver
    \/ BootReturns

\* the whole program as in Init, with the device free to send MaxLiveDiag
\* diagnostic frames
InitLive ==
    /\ debug_duration_in_message_count = FALSE
    /\ requests = "live"
    /\ codec = NoCodec
    /\ setup = NoSetup
    /\ receivers \in Configs
    /\ lock = None
    /\ serLock = FreeLock
    /\ urhLock = None
    /\ receiver_index = -1
    /\ ser_in \in StaleInputs
    /\ frame_start = Starts(ser_in)
    /\ devQueue = << >>
    /\ devStage = 0
    /\ diagSent = 0
    /\ transport = << >>
    /\ written = << >>
    /\ acquired = << >>
    /\ finished = {}
    /\ raised = {}
    /\ tasks = << >>
    /\ booted = FALSE
    /\ bootReads = << >>
    /\ ackedAdds = 0
    /\ regOrder = << >>
    /\ regResult = [t \in Clients |-> -1]
    /\ issued = 0
    /\ pc = [t \in AllThreads |->
                IF t = "main" THEN "boot" ELSE IF t \in Threads THEN "idle" ELSE "off"]
    /\ local = [t \in AllThreads |-> NoLocal]

\* the whole program with threads that keep running and a device that
\* answers every request it has received
FairSpec ==
    /\ InitLive
    /\ [][Next]_vars
    /\ \A t \in Threads : WF_vars(ThreadStep(t))
    /\ WF_vars(BootStep)
    /\ WF_vars(DeviceBooted)
    /\ WF_vars(DeviceAck)

\* the transport locks a thread holds
HoldsTransportLock(t) == serLock.owner = t \/ urhLock = t

\* a thread stands before a lock: the Coordinator lock, the connection lock
\* or the RF lock
AtLock(t) == pc[t] \in {"cmd_wait", "reg_call", "ar_cmd", "pd_cmd"}

\* every blocking read of the serial port returns again
HardwareCallsReturn == \A t \in Threads : []<>(pc[t] # "drain_payload")

C23_IntervalValid ==
    \A k \in 1 .. Len(tasks) :
        /\ tasks[k].interval_half_s > 0
        /\ tasks[k].interval_half_s < 2 * receivers[tasks[k].receiver].awake_time_s

====
